---------------------------- MODULE Spec2Model ----------------------------
(***************************************************************************)
(* A model of the simplified RIP daemon of src/RIP/rip.py.                 *)
(*                                                                         *)
(* One RIPDaemon is modelled per router id in DOMAIN outputs.  Its state   *)
(* is the routing table (a list of Route objects, each with its timeout    *)
(* timer), the list of garbage-collection timers, the triggered-update     *)
(* timers, the periodic timer, the write registrations of the selector,    *)
(* the main (event loop) thread, the routing-table lock, and the timer     *)
(* callbacks that have fired and are still running on their own threads.   *)
(*                                                                         *)
(* Time is abstracted: a timer that is armed may expire at any later step. *)
(***************************************************************************)
EXTENDS Integers, Sequences, FiniteSets, TLC

\* ------------------------------------------------------------------------
\* Program constants
\* ------------------------------------------------------------------------
INFINITE_METRIC == 16

MaxValidRouterId == 64000

EntriesPerMessage == 25

\* ------------------------------------------------------------------------
\* Bounds of the model
\* ------------------------------------------------------------------------
\* Most RIP entries a daemon receives in one run (a datagram that fails to
\* decode counts as one).
MaxEntries == 2

\* The configuration of the router under study, as load_config_file returns
\* it: its id and its outputs, (metric, neighbor id) per connection in
\* configuration order (the ports are left out).
SelfConfig == [id      |-> 1,
               outputs |-> << [metric |-> 1, neighbor |-> 2],
                              [metric |-> 2, neighbor |-> 3] >>]

\* Destinations that occur in frames: the router itself (the direct-link
\* entry of a neighbor) and its neighbor 3, which can also be reached
\* through neighbor 2.
EnvDests == {1, 3}

\* Neighbors that send frames.
EnvSenders == {2, 3}

\* Metrics the neighbors advertise.
AdvMetrics == {1, INFINITE_METRIC}

\* ------------------------------------------------------------------------
\* Small helpers
\* ------------------------------------------------------------------------
\* Mutant: no cap, the first argument is returned.
Min_First(a, b) == a

Min(a, b) == IF a < b THEN a ELSE b

\* Index of the first element of s satisfying P, 0 when there is none.
FirstIndex(s, P(_)) ==
    IF \E i \in 1..Len(s) : P(s[i])
    THEN CHOOSE i \in 1..Len(s) : P(s[i]) /\ \A j \in 1..(i-1) : ~P(s[j])
    ELSE 0

RECURSIVE Flatten(_)
Flatten(ss) == IF ss = << >> THEN << >> ELSE Head(ss) \o Flatten(Tail(ss))

\* ------------------------------------------------------------------------
\* ResponseMessage: the wire format
\* ------------------------------------------------------------------------
\* A message is [sending_router_id, rip_entries]; an entry is
\* [dest_router_id, next_hop, metric] (address_family_identifier is always 2
\* on the sending side).
RIPEntry(route) ==
    [dest_router_id |-> route.dest, next_hop |-> route.neighbor, metric |-> route.metric]

EncodeEntry(entry) ==
    << 2 % 256, 0, 0, 0,
       entry.dest_router_id % 256, (entry.dest_router_id \div 256) % 256, 0, 0,
       0, 0, 0, 0,
       entry.next_hop % 256, (entry.dest_router_id \div 256) % 256, 0, 0,
       entry.metric % 256, 0, 0, 0 >>

Encode(message) ==
    << 2, 2, message.sending_router_id % 256, (message.sending_router_id \div 256) % 256 >>
    \o Flatten([i \in 1..Len(message.rip_entries) |-> EncodeEntry(message.rip_entries[i])])

\* Decoding of entry number i (0-based) of data; ok is FALSE where decode
\* returns False.
\* data is indexed from 1 here, so data[k] of the source is data[k+1].
DecodeEntry(data, i) ==
    LET s    == 4 + 20 * i
        bad  == [ok |-> FALSE, dest_router_id |-> 0, next_hop |-> 0, metric |-> 0]
        afi  == data[s + 1]
        dest == data[s + 5] + data[s + 6] * 256
        hop  == data[s + 13] + data[s + 14] * 256
        met  == data[s + 17]
    IN  IF afi # 2 THEN bad
        ELSE IF dest > MaxValidRouterId \/ dest < 1 THEN bad
        ELSE IF hop > MaxValidRouterId \/ hop < 1 THEN bad
        ELSE IF met > INFINITE_METRIC \/ hop < 1 THEN bad
        ELSE [ok |-> TRUE, dest_router_id |-> dest, next_hop |-> hop, metric |-> met]

\* ResponseMessage.decode: [ok, sending_router_id, rip_entries].
Decode(data) ==
    LET sender       == data[3] + data[4] * 256
        entry_number == (Len(data) - 4) \div 20
        decoded      == [i \in 1..entry_number |-> DecodeEntry(data, i - 1)]
        failed       == [ok |-> FALSE, sending_router_id |-> 0, rip_entries |-> << >>]
    IN  IF data[1] # 2 THEN failed
        ELSE IF data[2] # 2 THEN failed
        ELSE IF sender > MaxValidRouterId \/ sender < 1 THEN failed
        ELSE IF \E i \in 1..entry_number : ~decoded[i].ok THEN failed
        ELSE [ok |-> TRUE, sending_router_id |-> sender, rip_entries |-> decoded]

\* Connection.receive_routing_table_entries_from_neighbor: the list of Route
\* observations [src, dest, neighbor, metric] of a datagram; none is TRUE
\* where the method returns None.
ReceivedRoutes(data) ==
    LET m == Decode(data)
    IN  IF ~m.ok THEN [none |-> TRUE, routes |-> << >>]
        ELSE [none   |-> FALSE,
              routes |-> [i \in 1..Len(m.rip_entries) |->
                            [src      |-> m.sending_router_id,
                             dest     |-> m.rip_entries[i].dest_router_id,
                             neighbor |-> m.rip_entries[i].next_hop,
                             metric   |-> m.rip_entries[i].metric]]]

\* ------------------------------------------------------------------------
\* Route and its timeout timer
\* ------------------------------------------------------------------------
\* A Route of the table is [dest, neighbor, metric, timeout_timer] (src is
\* the owning router).  timeout_timer is the state of the threading.Timer of
\* the Route object: "armed" (started, may expire) or "done" (expired;
\* trigger_timeout has been called).
Route(dest, neighbor, metric) ==
    [dest |-> dest, neighbor |-> neighbor, metric |-> metric, timeout_timer |-> "none"]

\* Route.activate_timeout_timer: a timer still waiting is cancelled, a new
\* one is started.
ActivateTimeoutTimer(route) == [route EXCEPT !.timeout_timer = "armed"]

RemoveAt(s, i) == SubSeq(s, 1, i - 1) \o SubSeq(s, i + 1, Len(s))

\* ------------------------------------------------------------------------
\* RIPDaemon helpers.  d is the part of the daemon that update_routing_table
\* works on: [routes, garbage_collection_timers, triggered_update_timers,
\* path].  garbage_collection_timers is the list of (timer, neighbor,
\* destination), the timer "pending" or "fired" (the callback never takes
\* its entry out of the list).  triggered_update_timers counts the timers of
\* that list that have not expired yet.  path is a history of the statements
\* update_routing_table reached, one source line number per entry.
\* ------------------------------------------------------------------------
IsValidRouterId(router_id) == router_id <= MaxValidRouterId /\ router_id > 0

IsValidMetric(metric) == metric >= 1 /\ metric <= INFINITE_METRIC

\* Mutant: every router with a valid id passes for a neighbor.
IsNeighbor_AnyValidId(outs, router_id) == IsValidRouterId(router_id)

IsNeighbor(outs, router_id) == \E i \in 1..Len(outs) : outs[i].neighbor = router_id

\* Mutant: every link costs as much as the longest usable path.
GetMetricToNeighbor_Longest(outs, neighbor_router_id) == INFINITE_METRIC - 1

GetMetricToNeighbor(outs, neighbor_router_id) ==
    outs[FirstIndex(outs, LAMBDA o : o.neighbor = neighbor_router_id)].metric

\* Mutant: the lookup compares the next hop instead of the destination.
GetRouteDestinatingTo_ByNeighbor(table, dest) ==
    FirstIndex(table, LAMBDA r : r.neighbor = dest)

\* Index of the first route to dest in the table, 0 for None.
GetRouteDestinatingTo(table, dest) == FirstIndex(table, LAMBDA r : r.dest = dest)

InvalidateGarbageCollectionTimer(gc, neighbor_id, destination_id) ==
    LET i == FirstIndex(gc, LAMBDA g : g.neighbor = neighbor_id /\ g.destination = destination_id)
    IN  IF i = 0 THEN gc ELSE RemoveAt(gc, i)

\* Mutant: the garbage-collection timer is stopped, the timeout timer of the
\* route is left as it is.
ResetTimeoutTimer_NoActivate(d, neighbor_id, destination_id) ==
    LET i == FirstIndex(d.routes, LAMBDA r : r.neighbor = neighbor_id /\ r.dest = destination_id)
    IN  IF i = 0 THEN d
        ELSE [d EXCEPT !.garbage_collection_timers =
                           InvalidateGarbageCollectionTimer(@, neighbor_id, destination_id)]

ResetTimeoutTimer(d, neighbor_id, destination_id) ==
    LET i == FirstIndex(d.routes, LAMBDA r : r.neighbor = neighbor_id /\ r.dest = destination_id)
    IN  IF i = 0 THEN d
        ELSE [d EXCEPT !.routes[i] = ActivateTimeoutTimer(@),
                       !.garbage_collection_timers =
                           InvalidateGarbageCollectionTimer(@, neighbor_id, destination_id)]

AddNewRoute(d, neighbor, destination, metric) ==
    [d EXCEPT !.garbage_collection_timers =
                  InvalidateGarbageCollectionTimer(@, neighbor, destination),
              !.routes = Append(@, ActivateTimeoutTimer(Route(destination, neighbor, metric)))]

ActivateTriggeredUpdatesTimer(trig) == trig + 1

ActivateGarbageCollectionTimer(gc, neighbor, destination) ==
    IF \E i \in 1..Len(gc) : gc[i].neighbor = neighbor /\ gc[i].destination = destination
    THEN gc
    ELSE Append(gc, [neighbor |-> neighbor, destination |-> destination, timer |-> "pending"])

\* ------------------------------------------------------------------------
\* RIPDaemon.update_routing_table
\* ------------------------------------------------------------------------
Tag(d, line, route, metric) == [d EXCEPT !.path = Append(@, line)]

\* The branch for an entry whose destination and next hop are this router
\* (lines 663-682): the direct link of the sending neighbor.  i is the index
\* of route_in_routing_table, 0 for None.
ProcessDirectEntryAt(d, route, i) ==
    IF i = 0
    THEN Tag(AddNewRoute(d, route.src, route.src, route.metric), 672, route, route.metric)
    ELSE IF d.routes[i].neighbor = route.src
    THEN IF route.metric # INFINITE_METRIC
         THEN Tag(ResetTimeoutTimer([d EXCEPT !.routes[i].metric = route.metric],
                                    route.src, route.src),
                  676, route, route.metric)
         ELSE Tag(d, 675, route, route.metric)
    ELSE IF route.metric < d.routes[i].metric
         THEN Tag(ResetTimeoutTimer([d EXCEPT !.routes[i].neighbor = route.src,
                                              !.routes[i].metric = route.metric],
                                    route.src, route.dest),
                  680, route, route.metric)
         ELSE Tag(d, 679, route, route.metric)

ProcessDirectEntry(d, route) ==
    ProcessDirectEntryAt(d, route, GetRouteDestinatingTo(d.routes, route.src))

\* Mutant: a route of equal cost through another neighbor is adopted too.
IsBetterMetric_OrEqual(metric, route_in_routing_table) ==
    metric <= route_in_routing_table.metric

\* The test of line 710: the offer of another neighbor is strictly better.
IsBetterMetric(metric, route_in_routing_table) ==
    metric < route_in_routing_table.metric

\* The branch for every other destination (lines 690-714), metric the
\* total cost and i the index of route_in_routing_table, 0 for None.
ProcessLearnedEntryAt(d, route, metric, i) ==
    IF i = 0
    THEN IF metric # INFINITE_METRIC
         THEN Tag(AddNewRoute(d, route.src, route.dest, metric), 695, route, metric)
         ELSE Tag(d, 693, route, metric)
    ELSE IF d.routes[i].neighbor = route.src
    THEN IF d.routes[i].metric # INFINITE_METRIC
         THEN IF metric = INFINITE_METRIC
              THEN Tag([d EXCEPT
                          !.routes[i].metric = metric,
                          !.triggered_update_timers = ActivateTriggeredUpdatesTimer(@),
                          !.garbage_collection_timers =
                              ActivateGarbageCollectionTimer(@, d.routes[i].neighbor,
                                                             d.routes[i].dest)],
                       705, route, metric)
              ELSE Tag(ResetTimeoutTimer([d EXCEPT !.routes[i].metric = metric],
                                         route.src, route.dest),
                       708, route, metric)
         ELSE Tag(d, 702, route, metric)
    ELSE IF IsBetterMetric(metric, d.routes[i])
         THEN Tag(ResetTimeoutTimer([d EXCEPT !.routes[i].neighbor = route.src,
                                              !.routes[i].metric = metric],
                                    route.src, route.dest),
                  712, route, metric)
         ELSE Tag(d, 711, route, metric)

\* Lines 685-714: the total cost through the sending neighbor, then the
\* lookup of the destination.
ProcessLearnedEntry(outs, d, route) ==
    ProcessLearnedEntryAt(d, route,
                          Min(GetMetricToNeighbor(outs, route.src) + route.metric,
                              INFINITE_METRIC),
                          GetRouteDestinatingTo(d.routes, route.dest))

\* One iteration of the loop of update_routing_table.
ProcessEntry(self, outs, d, route) ==
    IF ~IsNeighbor(outs, route.src) THEN Tag(d, 643, route, route.metric)
    ELSE IF ~IsValidRouterId(route.neighbor) THEN Tag(d, 648, route, route.metric)
    ELSE IF ~IsValidRouterId(route.dest) THEN Tag(d, 653, route, route.metric)
    ELSE IF ~IsValidMetric(route.metric) THEN Tag(d, 658, route, route.metric)
    ELSE IF route.dest = self
    THEN IF route.neighbor = self THEN ProcessDirectEntry(d, route)
         ELSE Tag(d, 683, route, route.metric)
    ELSE ProcessLearnedEntry(outs, d, route)

RECURSIVE UpdateRoutingTable(_, _, _, _)
UpdateRoutingTable(self, outs, d, received) ==
    IF received = << >> THEN d
    ELSE UpdateRoutingTable(self, outs, ProcessEntry(self, outs, d, Head(received)), Tail(received))

\* ------------------------------------------------------------------------
\* Connection.send_routing_table_entries_to_neighbor
\* ------------------------------------------------------------------------
\* Mutant: the route to the neighbor itself is poisoned too.
SendingRoute_PoisonAll(route, neighbor_router_id) ==
    IF route.neighbor = neighbor_router_id
    THEN [route EXCEPT !.metric = INFINITE_METRIC]
    ELSE route

\* Mutant: plain split-horizon-free sending, every route goes out as it is.
SendingRoute_NoPoison(route, neighbor_router_id) == route

\* The route as it is put into the message for neighbor_router_id.
SendingRoute(route, neighbor_router_id) ==
    IF route.neighbor = neighbor_router_id /\ route.dest # neighbor_router_id
    THEN [route EXCEPT !.metric = INFINITE_METRIC]
    ELSE route

\* Message number i (from 0): the routes from index 25 * i to the end of the
\* table, then the direct-link entry.
MessageToNeighbor(self, out, table, i) ==
    LET start_index == i * EntriesPerMessage
    IN  [sending_router_id |-> self,
         rip_entries |->
             [k \in 1..(Len(table) - start_index) |->
                  RIPEntry(SendingRoute(table[start_index + k], out.neighbor))]
             \o << RIPEntry(Route(out.neighbor, out.neighbor, out.metric)) >>]

\* The datagrams of one call, in the order sent.
SendRoutingTableEntriesToNeighbor(self, out, table) ==
    LET message_count == (Len(table) \div EntriesPerMessage)
                         + (IF Len(table) % EntriesPerMessage # 0 THEN 1 ELSE 0)
    IN  [i \in 1..message_count |-> Encode(MessageToNeighbor(self, out, table, i - 1))]

\* RIPDaemon.register_write_event on the set of connections whose output
\* socket is registered: registering a registered socket raises, which ends
\* the calling timer thread.
RegisterWriteEvent(sockets, connection_count) ==
    LET stop == IF \E c \in 1..connection_count : c \in sockets
                THEN CHOOSE c \in 1..connection_count :
                         c \in sockets /\ \A b \in 1..(c - 1) : b \notin sockets
                ELSE connection_count + 1
    IN  sockets \cup 1..(stop - 1)

\* ------------------------------------------------------------------------
\* State
\* ------------------------------------------------------------------------
VARIABLES
    outputs,                    \* router id -> self.outputs of its daemon
    routes,                     \* router id -> self.routes
    garbage_collection_timers,  \* router id -> self.garbage_collection_timers
    triggered_update_timers,    \* router id -> pending timers of that list
    periodic_update_timer,      \* router id -> "none", "pending" or "fired"
    registered,                 \* router id -> connections registered for write
    main,                       \* router id -> "init", "running" or "crashed"
    lock,                       \* router id -> "free" or "main"
    threads,                    \* router id -> timer callbacks in progress
    orphans,                    \* router id -> armed timers of removed routes
    entries,                    \* router id -> RIP entries received so far
    network,                    \* datagrams sent to a daemon and not yet read
    last                        \* history: the last step and what it did

vars == << outputs, routes, garbage_collection_timers, triggered_update_timers,
           periodic_update_timer, registered, main, lock, threads, orphans,
           entries, network, last >>

Daemons == DOMAIN outputs

Step(op, r, path, to, datagrams) ==
    [op |-> op, r |-> r, path |-> path, to |-> to, datagrams |-> datagrams]

Call(line, neighbor, destination) == << line >>

\* ------------------------------------------------------------------------
\* What the neighbors may send
\* ------------------------------------------------------------------------
EnvEntries ==
    { [dest_router_id |-> d, next_hop |-> SelfConfig.id, metric |-> m] :
          d \in EnvDests, m \in AdvMetrics }
    \cup { [dest_router_id |-> SelfConfig.id, next_hop |-> 2, metric |-> 1] }

\* Frames of one entry, and frames as send_routing_table_entries_to_neighbor
\* builds them: an entry of the table followed by the direct-link entry.
EnvFrames ==
    { << e >> : e \in EnvEntries }
    \cup { << [dest_router_id |-> 3, next_hop |-> 2, metric |-> m],
              [dest_router_id |-> SelfConfig.id, next_hop |-> SelfConfig.id, metric |-> 1] >> :
               m \in {1, INFINITE_METRIC} }

\* Messages update_routing_table skips: the direct-link entry of a router
\* that is no neighbor, and an entry with the invalid metric 0.
SkippedMessages ==
    { [sending_router_id |-> 4,
       rip_entries |-> << [dest_router_id |-> SelfConfig.id, next_hop |-> SelfConfig.id,
                           metric |-> 1] >>],
      [sending_router_id |-> 2,
       rip_entries |-> << [dest_router_id |-> 3, next_hop |-> SelfConfig.id, metric |-> 0] >>] }

EnvMessages ==
    [sending_router_id : EnvSenders, rip_entries : EnvFrames] \cup SkippedMessages

\* A frame of another protocol version.
MalformedDatagram == << 2, 1, 2, 0 >> \o EncodeEntry([dest_router_id |-> 4, next_hop |-> 2, metric |-> 1])

EnvDatagrams == { Encode(m) : m \in EnvMessages } \cup { MalformedDatagram }

\* The datagrams of the specification of the whole daemon: neighbor 2
\* advertises neighbor 3 as reachable or as unreachable, neighbor 3 its
\* direct link, and one datagram is malformed.
SystemDatagrams ==
    { Encode([sending_router_id |-> 2,
              rip_entries |-> << [dest_router_id |-> 3, next_hop |-> 3, metric |-> m] >>]) :
          m \in {1, INFINITE_METRIC} }
    \cup { Encode([sending_router_id |-> 3,
                   rip_entries |-> << [dest_router_id |-> SelfConfig.id,
                                       next_hop |-> SelfConfig.id, metric |-> 1] >>]) }
    \cup { MalformedDatagram }

\* ------------------------------------------------------------------------
\* Init: the state after RIPDaemon.__init__
\* ------------------------------------------------------------------------
InitialRoutes(outs) ==
    [i \in 1..Len(outs) |->
        ActivateTimeoutTimer(Route(outs[i].neighbor, outs[i].neighbor, outs[i].metric))]

InitDaemons(cfg) ==
    /\ outputs = cfg
    /\ routes = [r \in DOMAIN cfg |-> InitialRoutes(cfg[r])]
    /\ garbage_collection_timers = [r \in DOMAIN cfg |-> << >>]
    /\ triggered_update_timers = [r \in DOMAIN cfg |-> 0]
    /\ registered = [r \in DOMAIN cfg |-> {}]
    /\ lock = [r \in DOMAIN cfg |-> "free"]
    /\ threads = [r \in DOMAIN cfg |-> {}]
    /\ orphans = [r \in DOMAIN cfg |-> {}]
    /\ entries = [r \in DOMAIN cfg |-> 0]
    /\ network = << >>

SelfOnly == [r \in {SelfConfig.id} |-> SelfConfig.outputs]

Init ==
    /\ InitDaemons(SelfOnly)
    /\ periodic_update_timer = [r \in DOMAIN SelfOnly |-> "none"]
    /\ main = [r \in DOMAIN SelfOnly |-> "init"]
    /\ last = Step("init", 0, << >>, 0, << >>)

\* ------------------------------------------------------------------------
\* The event loop (RIPDaemon.activate)
\* ------------------------------------------------------------------------
\* activate() starts the periodic timer and enters the loop.
Activate(r) ==
    /\ main[r] = "init"
    /\ main' = [main EXCEPT ![r] = "running"]
    /\ periodic_update_timer' = [periodic_update_timer EXCEPT ![r] = "pending"]
    /\ last' = Step("activate", r, << >>, 0, << >>)
    /\ UNCHANGED << outputs, routes, garbage_collection_timers, triggered_update_timers,
                    registered, lock, threads, orphans >>
    /\ UNCHANGED << entries, network >>

\* What update_routing_table of daemon r starts from.
Working(r) ==
    [routes |-> routes[r],
     garbage_collection_timers |-> garbage_collection_timers[r],
     triggered_update_timers |-> triggered_update_timers[r],
     path |-> << >>]

\* A read event: one datagram is received and decoded, then the table is
\* updated under the lock.  update_routing_table(None) raises after the lock
\* has been taken, which ends the main thread.
Receive(r, data) ==
    /\ main[r] = "running"
    /\ lock[r] = "free"
    /\ entries[r] < MaxEntries
    /\ \E received \in {ReceivedRoutes(data)} :
         /\ entries[r] + Len(received.routes) <= MaxEntries
         /\ entries' = [entries EXCEPT ![r] = @ + (IF received.none THEN 1
                                                   ELSE Len(received.routes))]
         /\ IF received.none
            THEN /\ main' = [main EXCEPT ![r] = "crashed"]
                 /\ lock' = [lock EXCEPT ![r] = "main"]
                 /\ last' = Step("receive", r, Call(518, 0, 0), 0, << >>)
                 /\ UNCHANGED << routes, garbage_collection_timers, triggered_update_timers >>
            ELSE \E d1 \in {UpdateRoutingTable(r, outputs[r], Working(r), received.routes)} :
                 /\ routes' = [routes EXCEPT ![r] = d1.routes]
                 /\ garbage_collection_timers' =
                        [garbage_collection_timers EXCEPT ![r] = d1.garbage_collection_timers]
                 /\ triggered_update_timers' =
                        [triggered_update_timers EXCEPT ![r] = d1.triggered_update_timers]
                 /\ last' = Step("receive", r, d1.path, 0, << >>)
                 /\ UNCHANGED << main, lock >>
    /\ UNCHANGED << outputs, periodic_update_timer, registered, threads, orphans, network >>

\* The datagrams in flight at a time, over all sockets.
MaxInFlight == 1

\* A daemon of the model is running and reads what is sent to this router id.
Listening(id) == id \in Daemons /\ main[id] = "running"

\* A write event of connection c: the table is sent under the lock, the
\* output socket is unregistered and the periodic timer is started again.
\* The datagrams reach the input socket of the neighbor when a daemon of the
\* model listens there.
SendTo(r, c) ==
    /\ main[r] = "running"
    /\ lock[r] = "free"
    /\ c \in registered[r]
    /\ \E datagrams \in {SendRoutingTableEntriesToNeighbor(r, outputs[r][c], routes[r])} :
         /\ IF Listening(outputs[r][c].neighbor)
            THEN /\ Len(network) + Len(datagrams) <= MaxInFlight
                 /\ network' = network \o [k \in 1..Len(datagrams) |->
                                              [to |-> outputs[r][c].neighbor,
                                               data |-> datagrams[k]]]
            ELSE UNCHANGED network
         /\ last' = Step("send", r, << >>, outputs[r][c].neighbor, datagrams)
    /\ registered' = [registered EXCEPT ![r] = @ \ {c}]
    /\ periodic_update_timer' = [periodic_update_timer EXCEPT ![r] = "pending"]
    /\ UNCHANGED << outputs, routes, garbage_collection_timers, triggered_update_timers,
                    main, lock, threads, orphans >>
    /\ UNCHANGED entries

\* ------------------------------------------------------------------------
\* Timers
\* ------------------------------------------------------------------------
Thread(kind, neighbor, destination, pc) ==
    [kind |-> kind, neighbor |-> neighbor, destination |-> destination, pc |-> pc]

\* threads[r] is a set: a callback starts once no identical callback is at
\* the same point.
MayStart(r, t) == t \notin threads[r]

\* The timeout timer of route i expires: Route.trigger_timeout calls
\* timeout_timer_callback with the neighbor and dest the route has now; the
\* callback then waits for the lock.
TimeoutFire(r, i) ==
    LET t == Thread("timeout", routes[r][i].neighbor, routes[r][i].dest, "lock")
    IN  /\ routes[r][i].timeout_timer = "armed"
        /\ MayStart(r, t)
        /\ routes' = [routes EXCEPT ![r][i].timeout_timer = "done"]
        /\ threads' = [threads EXCEPT ![r] = @ \cup {t}]
        /\ last' = Step("timeout_fire", r, Call(337, t.neighbor, t.destination), 0, << >>)
        /\ UNCHANGED << outputs, garbage_collection_timers, triggered_update_timers,
                        periodic_update_timer, registered, main, lock, orphans >>
        /\ UNCHANGED << entries, network >>

\* The same for the timer of a Route object that garbage collection took
\* out of the table while its timer was armed.
OrphanFire(r, o) ==
    LET t == Thread("timeout", o[1], o[2], "lock")
    IN  /\ o \in orphans[r]
        /\ MayStart(r, t)
        /\ orphans' = [orphans EXCEPT ![r] = @ \ {o}]
        /\ threads' = [threads EXCEPT ![r] = @ \cup {t}]
        /\ last' = Step("orphan_fire", r, Call(337, t.neighbor, t.destination), 0, << >>)
        /\ UNCHANGED << outputs, routes, garbage_collection_timers, triggered_update_timers,
                        periodic_update_timer, registered, main, lock >>
        /\ UNCHANGED << entries, network >>

\* Mutant: the callback leaves the metrics as they are.
PoisonRoutes_None(rs, neighbor, destination) == rs

\* timeout_timer_callback, lines 790-794: under the lock, every route with
\* this (neighbor, destination) gets metric 16.
PoisonRoutes(rs, neighbor, destination) ==
    [i \in 1..Len(rs) |->
        IF rs[i].neighbor = neighbor /\ rs[i].dest = destination
        THEN [rs[i] EXCEPT !.metric = INFINITE_METRIC]
        ELSE rs[i]]

TimeoutPoison(r, t) ==
    /\ t \in threads[r] /\ t.kind = "timeout" /\ t.pc = "lock"
    /\ lock[r] = "free"
    /\ routes' = [routes EXCEPT ![r] = PoisonRoutes(@, t.neighbor, t.destination)]
    /\ threads' = [threads EXCEPT ![r] = (@ \ {t}) \cup {[t EXCEPT !.pc = "timers"]}]
    /\ last' = Step("timeout_poison", r, Call(793, t.neighbor, t.destination), 0, << >>)
    /\ UNCHANGED << outputs, garbage_collection_timers, triggered_update_timers,
                    periodic_update_timer, registered, main, lock, orphans >>
    /\ UNCHANGED << entries, network >>

\* timeout_timer_callback, lines 796-797, after the lock was released.
TimeoutTimers(r, t) ==
    /\ t \in threads[r] /\ t.kind = "timeout" /\ t.pc = "timers"
    /\ triggered_update_timers' =
           [triggered_update_timers EXCEPT ![r] = ActivateTriggeredUpdatesTimer(@)]
    /\ garbage_collection_timers' =
           [garbage_collection_timers EXCEPT
               ![r] = ActivateGarbageCollectionTimer(@, t.neighbor, t.destination)]
    /\ threads' = [threads EXCEPT ![r] = @ \ {t}]
    /\ last' = Step("timeout_timers", r, Call(797, t.neighbor, t.destination), 0, << >>)
    /\ UNCHANGED << outputs, routes, periodic_update_timer, registered, main, lock, orphans >>
    /\ UNCHANGED << entries, network >>

\* A garbage-collection timer expires; its callback waits for the lock.  The
\* entry stays in the list.
GarbageCollectionFire(r, j) ==
    LET g == garbage_collection_timers[r][j]
        t == Thread("gc", g.neighbor, g.destination, "lock")
    IN  /\ g.timer = "pending"
        /\ MayStart(r, t)
        /\ garbage_collection_timers' =
               [garbage_collection_timers EXCEPT ![r][j].timer = "fired"]
        /\ threads' = [threads EXCEPT ![r] = @ \cup {t}]
        /\ last' = Step("gc_fire", r, Call(800, g.neighbor, g.destination), 0, << >>)
        /\ UNCHANGED << outputs, routes, triggered_update_timers, periodic_update_timer,
                        registered, main, lock, orphans >>
        /\ UNCHANGED << entries, network >>

\* garbage_collection_timer_callback: the routes that stay.
ValidRoutes(rs, neighbor, destination) ==
    SelectSeq(rs, LAMBDA x : ~(x.neighbor = neighbor /\ x.dest = destination))

\* The armed timeout timers of the Route objects the callback drops.
DroppedTimers(rs, neighbor, destination) ==
    { << rs[i].neighbor, rs[i].dest >> :
        i \in { k \in 1..Len(rs) : /\ rs[k].neighbor = neighbor
                                   /\ rs[k].dest = destination
                                   /\ rs[k].timeout_timer = "armed" } }

GarbageCollectionRun(r, t) ==
    /\ t \in threads[r] /\ t.kind = "gc"
    /\ lock[r] = "free"
    /\ routes' = [routes EXCEPT ![r] = ValidRoutes(@, t.neighbor, t.destination)]
    /\ orphans' = [orphans EXCEPT
                      ![r] = @ \cup DroppedTimers(routes[r], t.neighbor, t.destination)]
    /\ threads' = [threads EXCEPT ![r] = @ \ {t}]
    /\ last' = Step("gc_run", r, Call(815, t.neighbor, t.destination), 0, << >>)
    /\ UNCHANGED << outputs, garbage_collection_timers, triggered_update_timers,
                    periodic_update_timer, registered, main, lock >>
    /\ UNCHANGED << entries, network >>

\* periodic_update_timer_callback
PeriodicFire(r) ==
    /\ periodic_update_timer[r] = "pending"
    /\ periodic_update_timer' = [periodic_update_timer EXCEPT ![r] = "fired"]
    /\ registered' = [registered EXCEPT ![r] = RegisterWriteEvent(@, Len(outputs[r]))]
    /\ last' = Step("periodic_fire", r, << >>, 0, << >>)
    /\ UNCHANGED << outputs, routes, garbage_collection_timers, triggered_update_timers,
                    main, lock, threads, orphans >>
    /\ UNCHANGED << entries, network >>

\* triggered_update_timer_callback
TriggeredFire(r) ==
    /\ triggered_update_timers[r] > 0
    /\ triggered_update_timers' = [triggered_update_timers EXCEPT ![r] = @ - 1]
    /\ registered' = [registered EXCEPT ![r] = RegisterWriteEvent(@, Len(outputs[r]))]
    /\ last' = Step("triggered_fire", r, << >>, 0, << >>)
    /\ UNCHANGED << outputs, routes, garbage_collection_timers, periodic_update_timer,
                    main, lock, threads, orphans >>
    /\ UNCHANGED << entries, network >>

\* ------------------------------------------------------------------------
\* Specification
\* ------------------------------------------------------------------------
\* The routing table and its timers: the datagrams received and the
\* timeout and garbage-collection timers, from the moment activate() has
\* started the periodic timer.
InitActivated ==
    /\ InitDaemons(SelfOnly)
    /\ periodic_update_timer = [r \in DOMAIN SelfOnly |-> "pending"]
    /\ main = [r \in DOMAIN SelfOnly |-> "running"]
    /\ last = Step("activate", SelfConfig.id, << >>, 0, << >>)

TimerNext ==
    \/ \E r \in Daemons : \E i \in 1..Len(routes[r]) : TimeoutFire(r, i)
    \/ \E r \in Daemons : \E o \in orphans[r] : OrphanFire(r, o)
    \/ \E r \in Daemons : \E t \in threads[r] : TimeoutPoison(r, t)
    \/ \E r \in Daemons : \E t \in threads[r] : TimeoutTimers(r, t)
    \/ \E r \in Daemons : \E j \in 1..Len(garbage_collection_timers[r]) :
           GarbageCollectionFire(r, j)
    \/ \E r \in Daemons : \E t \in threads[r] : GarbageCollectionRun(r, t)

Next ==
    \/ \E r \in Daemons : \E data \in EnvDatagrams : Receive(r, data)
    \/ TimerNext

Spec == InitActivated /\ [][Next]_vars

\* The whole daemon: construction, activate(), the periodic and triggered
\* updates and the write events as well.
SystemNext ==
    \/ \E r \in Daemons : Activate(r)
    \/ \E r \in Daemons : \E data \in SystemDatagrams : Receive(r, data)
    \/ \E r \in Daemons : \E c \in 1..Len(outputs[r]) : SendTo(r, c)
    \/ \E r \in Daemons : PeriodicFire(r)
    \/ \E r \in Daemons : TriggeredFire(r)
    \/ TimerNext

SystemSpec == Init /\ [][SystemNext]_vars

\* ------------------------------------------------------------------------
\* Properties
\* ------------------------------------------------------------------------
Neighbors(r) == { outputs[r][c].neighbor : c \in 1..Len(outputs[r]) }

\* The fields of entry j (from 1) of a datagram, read as section 4.2 of the
\* specification lays them out.
WireDest(data, j) == data[20 * j - 11] + 256 * data[20 * j - 10]

WireNextHop(data, j) == data[20 * j - 3] + 256 * data[20 * j - 2]

WireMetric(data, j) == data[20 * j + 1]

WireEntryCount(data) == (Len(data) - 4) \div 20

\* A garbage-collection timer for (neighbor, destination) that has not
\* expired is in the list gc.
PendingIn(gc, neighbor, destination) ==
    \E j \in 1..Len(gc) : /\ gc[j].neighbor = neighbor
                          /\ gc[j].destination = destination
                          /\ gc[j].timer = "pending"

\* Some entry of the last datagram received took the branch at this line.
Reached(line) ==
    /\ last.op = "receive"
    /\ \E k \in 1..Len(last.path) : last.path[k] = line

\* C1: in every reachable state the routing table of a router holds at most
\* one route per destination id.
C1_OneRoutePerDest ==
    \A r \in Daemons : \A i, j \in 1..Len(routes[r]) :
        routes[r][i].dest = routes[r][j].dest => i = j

\* A route has been garbage-collected and a datagram has just added a route
\* again, next to the route to the other neighbor.
C1_Witness ==
    \E r \in Daemons :
        /\ Reached(672) \/ Reached(695)
        /\ Len(routes[r]) = 2
        /\ \E j \in 1..Len(garbage_collection_timers[r]) :
               garbage_collection_timers[r][j].timer = "fired"

\* C2: whenever the table is sent to neighbor N, an emitted table entry
\* whose route has via = N and dest # N carries metric 16, every other table
\* entry carries the metric of its route, and the last entry of each datagram
\* is the direct link (dest N, next hop N, configured link metric of N).
C2_SplitHorizon ==
    last.op = "send" =>
        LET rs == routes[last.r]
            N  == last.to
        IN  \A k \in 1..Len(last.datagrams) :
              LET data == last.datagrams[k]
                  n    == WireEntryCount(data)
              IN  /\ n >= 1
                  /\ WireDest(data, n) = N
                  /\ WireNextHop(data, n) = N
                  /\ \E c \in 1..Len(outputs[last.r]) :
                        /\ outputs[last.r][c].neighbor = N
                        /\ WireMetric(data, n) = outputs[last.r][c].metric
                  /\ \A j \in 1..(n - 1) :
                        LET route == rs[(k - 1) * EntriesPerMessage + j]
                        IN  /\ WireDest(data, j) = route.dest
                            /\ WireMetric(data, j) =
                                  IF route.neighbor = N /\ route.dest # N
                                  THEN INFINITE_METRIC
                                  ELSE route.metric

\* The table has been sent to a neighbor through which an active route to
\* another destination leads, and also holds the route to that neighbor.
C2_Witness ==
    /\ last.op = "send"
    /\ Len(last.datagrams) >= 1
    /\ \E i \in 1..Len(routes[last.r]) :
          /\ routes[last.r][i].neighbor = last.to
          /\ routes[last.r][i].dest # last.to
          /\ routes[last.r][i].metric < INFINITE_METRIC
    /\ \E i \in 1..Len(routes[last.r]) :
          /\ routes[last.r][i].dest = last.to
          /\ routes[last.r][i].metric < INFINITE_METRIC

\* An entry of the table of neighbor src: destination dest at the advertised
\* metric (the next hop is only validated, never used).
LearnedEntry(src, dest, metric) ==
    [src |-> src, dest |-> dest, neighbor |-> src, metric |-> metric]

\* The direct-link entry neighbor src appends to its datagrams for router r.
DirectEntry(r, src, metric) ==
    [src |-> src, dest |-> r, neighbor |-> r, metric |-> metric]

\* The daemon r after update_routing_table has processed the one entry.
After(r, route) == ProcessEntry(r, outputs[r], Working(r), route)

\* The total cost of an advertisement: link metric plus advertised metric,
\* capped at 16.
TotalCost(r, src, metric) ==
    Min(GetMetricToNeighbor(outputs[r], src) + metric, INFINITE_METRIC)

\* The table rs holds a route (dest, via neighbor) with this metric.
HasRoute(rs, dest, neighbor, metric) ==
    \E k \in 1..Len(rs) : /\ rs[k].dest = dest
                          /\ rs[k].neighbor = neighbor
                          /\ rs[k].metric = metric

\* No timer callback of r is in progress.
Quiet(r) == threads[r] = {} /\ main[r] = "running"

\* Advertised metrics a property is evaluated at: the smallest, those around
\* the cap at 16 for the link metrics 1 and 2, and one in between.
ValidMetrics == {1, 2, 3, 8, 13, 14, 15, INFINITE_METRIC}

\* C3: when the table holds an active route (dest D, via A, metric < 16) and
\* neighbor A advertises D with a total cost of 16, then after the entry the
\* route has metric 16, one more triggered-update timer is pending and a
\* garbage-collection timer for (A, D) is pending.
C3_PoisonByAdvertisement ==
    \A r \in Daemons : \A i \in 1..Len(routes[r]) : \A a \in ValidMetrics :
        LET A == routes[r][i].neighbor
            D == routes[r][i].dest
            d1 == After(r, LearnedEntry(A, D, a))
        IN  (/\ Quiet(r)
             /\ routes[r][i].metric < INFINITE_METRIC
             /\ TotalCost(r, A, a) = INFINITE_METRIC)
            => /\ HasRoute(d1.routes, D, A, INFINITE_METRIC)
               /\ d1.triggered_update_timers = triggered_update_timers[r] + 1
               /\ PendingIn(d1.garbage_collection_timers, A, D)

\* C4: when route (dest D, via A) has metric 16 and its garbage-collection
\* timer is pending, an advertisement of D from A with a finite total cost
\* cancels that timer and leaves an active route (D, via A) at that cost with
\* its timeout timer armed.
C4_RevivalDuringGarbageCollection ==
    \A r \in Daemons : \A i \in 1..Len(routes[r]) : \A a \in ValidMetrics :
        LET A == routes[r][i].neighbor
            D == routes[r][i].dest
            d1 == After(r, LearnedEntry(A, D, a))
        IN  (/\ Quiet(r)
             /\ routes[r][i].metric = INFINITE_METRIC
             /\ PendingIn(garbage_collection_timers[r], A, D)
             /\ TotalCost(r, A, a) < INFINITE_METRIC)
            => /\ ~PendingIn(d1.garbage_collection_timers, A, D)
               /\ \E k \in 1..Len(d1.routes) :
                     /\ d1.routes[k] = [dest |-> D, neighbor |-> A,
                                        metric |-> TotalCost(r, A, a),
                                        timeout_timer |-> "armed"]

\* C5: when the timeout timer of a route (via, dest) has expired, the
\* callback has set the metric of the route to 16 and the timer has not been
\* armed again, then at the end of the callback the route has metric 16, one
\* more triggered-update timer is scheduled and a garbage-collection timer
\* for (via, dest) is pending.
C5_TimeoutExpiry ==
    [][\A r \in Daemons : \A t \in threads[r] :
          (/\ TimeoutTimers(r, t)
           /\ threads[r] = {t}
           /\ \E i \in 1..Len(routes[r]) : /\ routes[r][i].neighbor = t.neighbor
                                           /\ routes[r][i].dest = t.destination
                                           /\ routes[r][i].metric = INFINITE_METRIC
                                           /\ routes[r][i].timeout_timer = "done")
          => /\ HasRoute(routes'[r], t.destination, t.neighbor, INFINITE_METRIC)
             /\ triggered_update_timers'[r] = triggered_update_timers[r] + 1
             /\ PendingIn(garbage_collection_timers'[r], t.neighbor, t.destination)]_vars

\* Destinations a route of the router under study can have.
RouteDests == {2, 3}

\* Router SelfConfig.id holds a route to dest with metric 16.
Poisoned(dest) ==
    \E i \in 1..Len(routes[SelfConfig.id]) :
        /\ routes[SelfConfig.id][i].dest = dest
        /\ routes[SelfConfig.id][i].metric = INFINITE_METRIC

\* C6: every route that is poisoned and is not refreshed afterwards (no more
\* datagrams arrive, the event loop is alive) is eventually removed from the
\* table.
C6_GarbageCollectionDeletes ==
    \A dest \in RouteDests :
        (/\ Poisoned(dest)
         /\ entries[SelfConfig.id] = MaxEntries
         /\ main[SelfConfig.id] = "running") ~> ~Poisoned(dest)

\* C7: each route with metric 16 has a pending garbage-collection timer for
\* its (via, dest), or a timer callback for (via, dest) is in progress that
\* schedules one or removes the route.
C7_PoisonedRouteHasTimer ==
    \A r \in Daemons : \A i \in 1..Len(routes[r]) :
        routes[r][i].metric = INFINITE_METRIC
        => \/ PendingIn(garbage_collection_timers[r],
                        routes[r][i].neighbor, routes[r][i].dest)
           \/ \E t \in threads[r] : /\ t.neighbor = routes[r][i].neighbor
                                    /\ t.destination = routes[r][i].dest

\* C8: whenever an entry turns a route that is in garbage collection (metric
\* 16, timer pending) back into an active route, no garbage-collection timer
\* for the (via, dest) the route then has remains pending.
C8_RefreshCancelsGarbageCollection ==
    \A r \in Daemons : \A i \in 1..Len(routes[r]) :
      \A src \in Neighbors(r) : \A a \in ValidMetrics :
        \A route \in {LearnedEntry(src, routes[r][i].dest, a), DirectEntry(r, src, a)} :
          LET d1 == After(r, route)
          IN  (/\ Quiet(r)
               /\ routes[r][i].metric = INFINITE_METRIC
               /\ PendingIn(garbage_collection_timers[r],
                            routes[r][i].neighbor, routes[r][i].dest)
               /\ d1.routes[i].metric < INFINITE_METRIC)
              => ~PendingIn(d1.garbage_collection_timers,
                            d1.routes[i].neighbor, d1.routes[i].dest)

\* C9: when the table holds route (dest D, via A, metric m) and neighbor
\* B # A advertises D with total cost n < m, then after the entry the route
\* is (dest D, via B, metric n) and its timeout timer is armed.
C9_BetterNeighborAdoption ==
    \A r \in Daemons : \A i \in 1..Len(routes[r]) :
      \A B \in Neighbors(r) \ {routes[r][i].neighbor} : \A a \in ValidMetrics :
        \A n \in {TotalCost(r, B, a)} :
          n < routes[r][i].metric
          => \A d1 \in {After(r, LearnedEntry(B, routes[r][i].dest, a))} :
                /\ Len(d1.routes) = Len(routes[r])
                /\ d1.routes[i] = [dest |-> routes[r][i].dest, neighbor |-> B,
                                   metric |-> n, timeout_timer |-> "armed"]

\* A datagram of neighbor 2 has just moved the route to 3, whose timeout
\* timer had expired, to neighbor 2.
C9_Witness ==
    /\ last.op = "receive"
    /\ last.path = << 712 >>
    /\ \E i \in 1..Len(routes[SelfConfig.id]) :
          /\ routes[SelfConfig.id][i].dest = 3
          /\ routes[SelfConfig.id][i].neighbor = 2
          /\ routes[SelfConfig.id][i].metric = 2
          /\ routes[SelfConfig.id][i].timeout_timer = "armed"

\* C10: when the table holds route (dest D, via A, metric m) and neighbor
\* B # A advertises D with total cost n >= m, the entry leaves the route (its
\* via, metric and timeout timer), the garbage-collection list and the
\* triggered-update timers unchanged.
C10_NoSwitchToNotBetter ==
    \A r \in Daemons : \A i \in 1..Len(routes[r]) :
      \A B \in Neighbors(r) \ {routes[r][i].neighbor} : \A a \in ValidMetrics :
        TotalCost(r, B, a) >= routes[r][i].metric
        => \A d1 \in {After(r, LearnedEntry(B, routes[r][i].dest, a))} :
              /\ d1.routes = routes[r]
              /\ d1.garbage_collection_timers = garbage_collection_timers[r]
              /\ d1.triggered_update_timers = triggered_update_timers[r]

\* A datagram of neighbor 2 offering 3 at the cost the direct route has was
\* ignored, while a garbage-collection timer is in the list.
C10_Witness ==
    /\ last.op = "receive"
    /\ last.path = << 711 >>
    /\ Len(garbage_collection_timers[SelfConfig.id]) > 0
    /\ \E i \in 1..Len(routes[SelfConfig.id]) :
          /\ routes[SelfConfig.id][i].dest = 3
          /\ routes[SelfConfig.id][i].neighbor = 3

\* The timers are started by the code and expire after their interval; a
\* callback that waits for the lock gets it once the lock is released.
FairSpec == Spec /\ WF_vars(TimerNext)

\* C11: when the table holds an active route (dest D, via A, metric m < 16)
\* and A advertises D with a finite total cost n, larger or smaller than m,
\* then after the entry the route is (dest D, via A, metric n) and its
\* timeout timer is armed.
C11_SameNeighborUpdate ==
    \A r \in Daemons : \A i \in 1..Len(routes[r]) : \A a \in ValidMetrics :
      \A n \in {TotalCost(r, routes[r][i].neighbor, a)} :
        (routes[r][i].metric < INFINITE_METRIC /\ n < INFINITE_METRIC)
        => \A d1 \in {After(r, LearnedEntry(routes[r][i].neighbor, routes[r][i].dest, a))} :
              /\ Len(d1.routes) = Len(routes[r])
              /\ d1.routes[i] = [dest |-> routes[r][i].dest,
                                 neighbor |-> routes[r][i].neighbor,
                                 metric |-> n, timeout_timer |-> "armed"]

\* A table entry of neighbor 3 for destination 3 has just raised the metric
\* of the route (3, via 3) from 2 to 3, after the timeout timer of the route
\* had expired (its callback still waits for the lock).
C11_Witness ==
    /\ last.op = "receive"
    /\ last.path = << 708 >>
    /\ \E i \in 1..Len(routes[SelfConfig.id]) :
          routes[SelfConfig.id][i] = [dest |-> 3, neighbor |-> 3, metric |-> 3,
                                      timeout_timer |-> "armed"]
    /\ Thread("timeout", 3, 3, "lock") \in threads[SelfConfig.id]

\* ------------------------------------------------------------------------
\* Sending tables of many routes
\* ------------------------------------------------------------------------
\* Most routes of a table that is sent.
MaxTableSize == 27

\* A table of n routes: the two routes to the neighbors, then routes to the
\* destinations 4, 5, ... learned from neighbor via at advertised metric 1.
LearnedTable(n, via) ==
    [k \in 1..n |->
        IF k <= Len(SelfConfig.outputs)
        THEN InitialRoutes(SelfConfig.outputs)[k]
        ELSE ActivateTimeoutTimer(
                 Route(k + 1, via,
                       Min(GetMetricToNeighbor(SelfConfig.outputs, via) + 1,
                           INFINITE_METRIC)))]

\* The daemon after the periodic timer has expired and registered the output
\* sockets, with a table of 1..MaxTableSize routes.
InitSend ==
    /\ \E n \in 1..MaxTableSize : \E via \in {2, 3} :
          routes = [r \in DOMAIN SelfOnly |-> LearnedTable(n, via)]
    /\ outputs = SelfOnly
    /\ garbage_collection_timers = [r \in DOMAIN SelfOnly |-> << >>]
    /\ triggered_update_timers = [r \in DOMAIN SelfOnly |-> 0]
    /\ registered = [r \in DOMAIN SelfOnly |-> 1..Len(SelfOnly[r])]
    /\ lock = [r \in DOMAIN SelfOnly |-> "free"]
    /\ threads = [r \in DOMAIN SelfOnly |-> {}]
    /\ orphans = [r \in DOMAIN SelfOnly |-> {}]
    /\ entries = [r \in DOMAIN SelfOnly |-> 0]
    /\ network = << >>
    /\ periodic_update_timer = [r \in DOMAIN SelfOnly |-> "fired"]
    /\ main = [r \in DOMAIN SelfOnly |-> "running"]
    /\ last = Step("periodic_fire", SelfConfig.id, << >>, 0, << >>)

SendNext ==
    \/ \E r \in Daemons : \E c \in 1..Len(outputs[r]) : SendTo(r, c)
    \/ \E r \in Daemons : PeriodicFire(r)

SendSpec == InitSend /\ [][SendNext]_vars

\* ceil(n / EntriesPerMessage)
Chunks(n) == (n + EntriesPerMessage - 1) \div EntriesPerMessage

\* C12: for a table of n >= 1 routes a send emits ceil(n/25) datagrams; the
\* k-th datagram (from 1) holds exactly the routes 25(k-1)+1 .. min(25k, n) of
\* the table followed by one direct-link entry, so no datagram has more than
\* 26 entries and every route is sent once.
C12_Chunking ==
    (last.op = "send" /\ Len(routes[last.r]) >= 1) =>
        LET rs == routes[last.r]
            n  == Len(rs)
            ds == last.datagrams
        IN  /\ Len(ds) = Chunks(n)
            /\ \A k \in 1..Len(ds) :
                  LET first == EntriesPerMessage * (k - 1)
                      count == Min(EntriesPerMessage * k, n) - first
                  IN  /\ WireEntryCount(ds[k]) = count + 1
                      /\ WireEntryCount(ds[k]) <= EntriesPerMessage + 1
                      /\ \A j \in 1..Min(count, WireEntryCount(ds[k])) :
                            WireDest(ds[k], j) = rs[first + j].dest
                      /\ WireDest(ds[k], WireEntryCount(ds[k])) = last.to

\* C13: in every reachable state the via (next hop) of every route in the
\* table is the id of one of the configured neighbors of the router.
C13_ViaIsNeighbor ==
    \A r \in Daemons : \A i \in 1..Len(routes[r]) :
        routes[r][i].neighbor \in Neighbors(r)

\* The direct-link entry of router 4, which is no neighbor, has just been
\* skipped, while the table holds a route learned from neighbor 2.
C13_Witness ==
    /\ last.op = "receive"
    /\ last.path = << 643 >>
    /\ \E i \in 1..Len(routes[SelfConfig.id]) :
          /\ routes[SelfConfig.id][i].dest = 3
          /\ routes[SelfConfig.id][i].neighbor = 2

\* C14: in every reachable state the metric of every route in the table is
\* an integer in [1, 16].
C14_MetricInRange ==
    \A r \in Daemons : \A i \in 1..Len(routes[r]) :
        /\ routes[r][i].metric \in Int
        /\ routes[r][i].metric >= 1
        /\ routes[r][i].metric <= INFINITE_METRIC

\* An entry with metric 0 has just been skipped, after an advertisement with
\* metric 16 over the link of metric 2 had given a route the capped cost 16.
C14_Witness ==
    /\ last.op = "receive"
    /\ last.path = << 658 >>
    /\ \E i \in 1..Len(routes[SelfConfig.id]) :
          /\ routes[SelfConfig.id][i].metric = INFINITE_METRIC
          /\ routes[SelfConfig.id][i].timeout_timer = "armed"

\* C15: when a received datagram fails decoding, the routing table, the
\* garbage-collection list and all timers are unchanged, the lock is free
\* afterwards and the event loop goes on.
C15_MalformedFrame ==
    [][\A r \in Daemons :
          Receive(r, MalformedDatagram)
          => /\ routes'[r] = routes[r]
             /\ garbage_collection_timers'[r] = garbage_collection_timers[r]
             /\ triggered_update_timers'[r] = triggered_update_timers[r]
             /\ periodic_update_timer'[r] = periodic_update_timer[r]
             /\ lock'[r] = "free"
             /\ main'[r] = "running"]_vars

\* ------------------------------------------------------------------------
\* Frames a neighbor builds with send_routing_table_entries_to_neighbor
\* ------------------------------------------------------------------------
\* The other neighbor of the router under study.
OtherNeighbor(N) == CHOOSE o \in EnvSenders : o # N

\* The outputs of neighbor N: its link to the router under study at metric a
\* and its link to the other neighbor at metric 1.
NeighborOutputs(N, a) ==
    << [metric |-> a, neighbor |-> SelfConfig.id],
       [metric |-> 1, neighbor |-> OtherNeighbor(N)] >>

\* Tables neighbor N can hold: its initial table, and the same with the route
\* to the router under study timed out or replaced by a route through the
\* other neighbor.
NeighborTables(N, a) ==
    LET initial == InitialRoutes(NeighborOutputs(N, a))
    IN  { initial,
          [initial EXCEPT ![1].metric = INFINITE_METRIC],
          [initial EXCEPT ![1].neighbor = OtherNeighbor(N), ![1].metric = 2] }

\* Metrics a neighbor can have configured for its link.
LinkMetrics == {2, INFINITE_METRIC}

\* What arrives here of each datagram neighbor N sends for a table: the
\* sender, its link metric and the decoded entries.
NeighborFrames ==
    UNION { UNION { UNION {
        { [src |-> N, metric |-> a,
           routes |-> ReceivedRoutes(
               SendRoutingTableEntriesToNeighbor(N, NeighborOutputs(N, a)[1], t)[k]).routes] :
             k \in 1..Len(SendRoutingTableEntriesToNeighbor(N, NeighborOutputs(N, a)[1], t)) } :
          t \in NeighborTables(N, a) } : a \in LinkMetrics } : N \in EnvSenders }

\* The frame f re-arms the timeout timer of an existing route (dest N, via N)
\* and adds the route (N, N, link metric) where the table has no route to N.
DirectRouteRefreshed(f) ==
    \A r \in {x \in Daemons : main[x] = "running"} :
      \A d1 \in {UpdateRoutingTable(r, outputs[r], Working(r), f.routes)} :
        /\ \A i \in 1..Len(routes[r]) :
              (routes[r][i].dest = f.src /\ routes[r][i].neighbor = f.src)
              => /\ d1.routes[i].dest = f.src
                 /\ d1.routes[i].neighbor = f.src
                 /\ d1.routes[i].timeout_timer = "armed"
        /\ (\A i \in 1..Len(routes[r]) : routes[r][i].dest # f.src)
           => HasRoute(d1.routes, f.src, f.src, f.metric)

C17_DirectLinkAdoption ==
    \A r \in Daemons : \A i \in 1..Len(routes[r]) : \A a \in ValidMetrics :
      ( /\ Quiet(r)
        /\ routes[r][i].dest \in Neighbors(r)
        /\ routes[r][i].neighbor # routes[r][i].dest
        /\ a < routes[r][i].metric )
      => \A d1 \in {After(r, DirectEntry(r, routes[r][i].dest, a))} :
            /\ Len(d1.routes) = Len(routes[r])
            /\ d1.routes[i] = [dest |-> routes[r][i].dest,
                               neighbor |-> routes[r][i].dest,
                               metric |-> a,
                               timeout_timer |-> "armed"]

\* ------------------------------------------------------------------------
\* Several daemons, each running the program, exchanging their datagrams
\* ------------------------------------------------------------------------
Routers == {1, 2, 3}

\* R1-R2 = 1, R2-R3 = 1, R1-R3 = 5.
Triangle ==
    [r \in Routers |->
        CASE r = 1 -> << [metric |-> 1, neighbor |-> 2], [metric |-> 5, neighbor |-> 3] >>
          [] r = 2 -> << [metric |-> 1, neighbor |-> 1], [metric |-> 1, neighbor |-> 3] >>
          [] r = 3 -> << [metric |-> 5, neighbor |-> 1], [metric |-> 1, neighbor |-> 2] >>]

\* R1-R2 = 1, R2-R3 = 1.
Chain ==
    [r \in Routers |->
        CASE r = 1 -> << [metric |-> 1, neighbor |-> 2] >>
          [] r = 2 -> << [metric |-> 1, neighbor |-> 1], [metric |-> 1, neighbor |-> 3] >>
          [] r = 3 -> << [metric |-> 1, neighbor |-> 2] >>]

\* Every daemon has been constructed and has entered activate().
NetInit(cfg) ==
    /\ InitDaemons(cfg)
    /\ periodic_update_timer = [r \in Routers |-> "pending"]
    /\ main = [r \in Routers |-> "running"]
    /\ last = Step("activate", 0, << >>, 0, << >>)

\* A read event of daemon r: the oldest datagram sent to it is received and
\* decoded, and the table is updated under the lock.
ReadEvent(r) ==
    /\ main[r] = "running"
    /\ lock[r] = "free"
    /\ \E k \in 1..Len(network) :
         /\ network[k].to = r
         /\ \A j \in 1..(k - 1) : network[j].to # r
         /\ network' = RemoveAt(network, k)
         /\ \E received \in {ReceivedRoutes(network[k].data)} :
              IF received.none
              THEN /\ main' = [main EXCEPT ![r] = "crashed"]
                   /\ lock' = [lock EXCEPT ![r] = "main"]
                   /\ last' = Step("receive", r, Call(518, 0, 0), 0, << >>)
                   /\ UNCHANGED << routes, garbage_collection_timers, triggered_update_timers >>
              ELSE \E d1 \in {UpdateRoutingTable(r, outputs[r], Working(r), received.routes)} :
                   /\ routes' = [routes EXCEPT ![r] = d1.routes]
                   /\ garbage_collection_timers' =
                          [garbage_collection_timers EXCEPT ![r] = d1.garbage_collection_timers]
                   /\ triggered_update_timers' =
                          [triggered_update_timers EXCEPT ![r] = d1.triggered_update_timers]
                   /\ last' = Step("receive", r, d1.path, 0, << >>)
                   /\ UNCHANGED << main, lock >>
    /\ UNCHANGED << outputs, periodic_update_timer, registered, threads, orphans, entries >>

\* The process of daemon r ends: its table, its timers and its sockets are
\* gone, and what was sent to it is lost.
Stop(r) ==
    /\ main[r] = "running"
    /\ main' = [main EXCEPT ![r] = "stopped"]
    /\ routes' = [routes EXCEPT ![r] = << >>]
    /\ garbage_collection_timers' = [garbage_collection_timers EXCEPT ![r] = << >>]
    /\ triggered_update_timers' = [triggered_update_timers EXCEPT ![r] = 0]
    /\ periodic_update_timer' = [periodic_update_timer EXCEPT ![r] = "none"]
    /\ registered' = [registered EXCEPT ![r] = {}]
    /\ threads' = [threads EXCEPT ![r] = {}]
    /\ orphans' = [orphans EXCEPT ![r] = {}]
    /\ network' = SelectSeq(network, LAMBDA p : p.to # r)
    /\ last' = Step("stop", r, << >>, 0, << >>)
    /\ UNCHANGED << outputs, lock, entries >>

\* Processing these entries starts the timeout timer of route i of daemon r
\* anew.
Rearms(r, i, rs) ==
    LET unarmed == [k \in 1..Len(routes[r]) |->
                        [routes[r][k] EXCEPT !.timeout_timer = "none"]]
        d1 == UpdateRoutingTable(r, outputs[r], [Working(r) EXCEPT !.routes = unarmed], rs)
    IN  d1.routes[i].timeout_timer = "armed"

\* The datagrams a running neighbor n sends to daemon r from its table.
DatagramsFrom(n, r) ==
    IF Listening(n) /\ \E b \in 1..Len(outputs[n]) : outputs[n][b].neighbor = r
    THEN SendRoutingTableEntriesToNeighbor(
             n, outputs[n][CHOOSE b \in 1..Len(outputs[n]) : outputs[n][b].neighbor = r],
             routes[n])
    ELSE << >>

\* TIMEOUT_TIMER_INTERVAL is six periodic intervals: the timeout timer of
\* route i expires only when it is not started anew for six periods, that is
\* when no datagram for r is in flight and no periodic update of a running
\* neighbor starts it anew.
Expired(r, i) ==
    /\ \A k \in 1..Len(network) : network[k].to # r
    /\ \A c \in 1..Len(outputs[r]) :
         \A datagrams \in {DatagramsFrom(outputs[r][c].neighbor, r)} :
           \A k \in 1..Len(datagrams) :
              ~Rearms(r, i, ReceivedRoutes(datagrams[k]).routes)

NetTimeoutFire(r, i) == Expired(r, i) /\ TimeoutFire(r, i)

\* A timeout timer of a route of daemon r expires.
RouteExpiry(r) == \E i \in 1..Len(routes[r]) : NetTimeoutFire(r, i)

\* A timer callback of daemon r goes on, or one of its garbage-collection
\* timers expires.
TimerCallbacks(r) ==
    \/ \E t \in threads[r] : TimeoutPoison(r, t)
    \/ \E t \in threads[r] : TimeoutTimers(r, t)
    \/ \E j \in 1..Len(garbage_collection_timers[r]) : GarbageCollectionFire(r, j)
    \/ \E t \in threads[r] : GarbageCollectionRun(r, t)

\* The chain after it has converged: each end has learned the route to the
\* other end from the datagrams of R2 (add_new_route appends it), the
\* three daemons run and nothing is in flight.
ConvergedChainInit ==
    /\ outputs = Chain
    /\ garbage_collection_timers = [r \in Routers |-> << >>]
    /\ triggered_update_timers = [r \in Routers |-> 0]
    /\ registered = [r \in Routers |-> {}]
    /\ lock = [r \in Routers |-> "free"]
    /\ threads = [r \in Routers |-> {}]
    /\ orphans = [r \in Routers |-> {}]
    /\ entries = [r \in Routers |-> 0]
    /\ network = << >>
    /\ periodic_update_timer = [r \in Routers |-> "pending"]
    /\ main = [r \in Routers |-> "running"]
    /\ last = Step("receive", 1, << 676, 708 >>, 0, << >>)
    /\ routes = [r \in Routers |->
                    CASE r = 1 -> InitialRoutes(Chain[1]) \o << ActivateTimeoutTimer(Route(3, 2, 2)) >>
                      [] r = 2 -> InitialRoutes(Chain[2])
                      [] r = 3 -> InitialRoutes(Chain[3]) \o << ActivateTimeoutTimer(Route(1, 2, 2)) >>]

\* From then on: R2 may end, and the timers of the three daemons run.  No
\* route is removed while its timeout timer runs, so no timer is left behind
\* by a removed route.
ChainNext ==
    \/ \E r \in Routers : RouteExpiry(r)
    \/ \E r \in Routers : TimerCallbacks(r)
    \/ Stop(2)

ChainSpec == ConvergedChainInit /\ [][ChainNext]_vars

\* The triangle with the three daemons running for ever: the read events,
\* the periodic timers and the write events.
TriangleNext ==
    \/ \E r \in Routers : ReadEvent(r)
    \/ \E r \in Routers : \E c \in 1..Len(outputs[r]) : SendTo(r, c)
    \/ \E r \in Routers : PeriodicFire(r)

TriangleSpec == NetInit(Triangle) /\ [][TriangleNext]_vars

\* Fair delivery of periodic updates: every periodic timer expires, every
\* registered write event is served and every datagram in flight is read.
\* ReadEvent(r) is enabled.
ReadEnabled(r) ==
    /\ main[r] = "running"
    /\ lock[r] = "free"
    /\ \E k \in 1..Len(network) : network[k].to = r

\* Weak fairness of ReadEvent(r), with its enabling condition written out.
ReadFair(r) == []<>~ReadEnabled(r) \/ []<><<ReadEvent(r)>>_vars

\* SendTo(r, c) is enabled.
SendEnabled(r, c) ==
    /\ main[r] = "running"
    /\ lock[r] = "free"
    /\ c \in registered[r]
    /\ Listening(outputs[r][c].neighbor)
       => Len(network)
          + Len(SendRoutingTableEntriesToNeighbor(r, outputs[r][c], routes[r])) <= MaxInFlight

\* Strong fairness of SendTo(r, c), with its enabling condition written out.
SendFair(r, c) == <>[]~SendEnabled(r, c) \/ []<><<SendTo(r, c)>>_vars

TriangleFairSpec ==
    /\ TriangleSpec
    /\ \A r \in Routers : WF_vars(PeriodicFire(r))
    /\ \A r \in Routers : ReadFair(r)
    /\ \A r \in Routers : \A c \in 1..2 : SendFair(r, c)

\* No timeout timer of a route can expire: each is started anew by the
\* periodic update of a running neighbor.
EveryRouteRefreshed ==
    \A r \in Routers : \A i \in 1..Len(routes[r]) :
        network = << >> => ~Expired(r, i)

\* C18: in the triangle R1-R2 = 1, R2-R3 = 1, R1-R3 = 5 with the three
\* routers alive and refreshing, under fair delivery of the periodic updates
\* the table of R1 eventually holds (dest 3, via 2, metric 2) and keeps it.
C18_TriangleConvergence ==
    /\ []EveryRouteRefreshed
    /\ <>[]HasRoute(routes[1], 3, 2, 2)

\* R1 has just adopted the route to 3 through 2 from a datagram of R2.
C18_Witness ==
    /\ outputs = Triangle
    /\ last.op = "receive" /\ last.r = 1
    /\ \E k \in 1..Len(last.path) : last.path[k] = 712
    /\ routes[1] = << [dest |-> 2, neighbor |-> 2, metric |-> 1, timeout_timer |-> "armed"],
                      [dest |-> 3, neighbor |-> 2, metric |-> 2, timeout_timer |-> "armed"] >>

\* The timers of every daemon run: an expired timer calls its callback and
\* the callback gets the lock.
\* RouteExpiry(r) is enabled.
ExpiryEnabled(r) ==
    \E i \in 1..Len(routes[r]) :
        /\ routes[r][i].timeout_timer = "armed"
        /\ MayStart(r, Thread("timeout", routes[r][i].neighbor, routes[r][i].dest, "lock"))
        /\ Expired(r, i)

\* Weak fairness of RouteExpiry(r), with its enabling condition written out.
ExpiryFair(r) == []<>~ExpiryEnabled(r) \/ []<><<RouteExpiry(r)>>_vars

\* The timers run: a timer that can expire does, and its callback goes on.
ChainFairSpec ==
    /\ ChainSpec
    /\ \A r \in Routers : WF_vars(TimerCallbacks(r))
    /\ \A r \in Routers : ExpiryFair(r)

\* The table of r holds a route to dest through R2.
ViaTwo(r, dest) ==
    \E k \in 1..Len(routes[r]) : routes[r][k].dest = dest /\ routes[r][k].neighbor = 2

\* Neither end of the chain holds a route through R2.
NoRouteViaTwo ==
    \A r \in {1, 3} : \A k \in 1..Len(routes[r]) : routes[r][k].neighbor # 2

\* C19: in the chain R1-R2-R3, after the chain has converged and R2 has
\* stopped, every route with via 2 in the tables of R1 and R3 eventually
\* gets metric 16, is afterwards removed, and no route with via 2 reappears.
\* (First conjunct: no removed route leaves a running timer behind.)
C19_NeighborDeath ==
    /\ [](\A r \in Routers : orphans[r] = {})
    /\ \A r \in {1, 3} : \A dest \in Routers :
          (main[2] = "stopped" /\ ViaTwo(r, dest)) ~> HasRoute(routes[r], dest, 2, INFINITE_METRIC)
    /\ (main[2] = "stopped") ~> []NoRouteViaTwo

\* R2 has stopped and the garbage collection of R1 has just removed its last
\* route through R2, after R3's table was emptied as well.
C19_Witness ==
    /\ main[2] = "stopped"
    /\ last.op = "gc_run" /\ last.r = 1
    /\ routes[1] = << >>
    /\ routes[3] = << >>
    /\ Len(garbage_collection_timers[1]) = 2

\* ------------------------------------------------------------------------
\* The periodic and the triggered updates of one daemon
\* ------------------------------------------------------------------------
\* What the daemon receives meanwhile: a neighbor advertises itself as
\* unreachable, which starts a triggered update (line 705), and one datagram
\* is malformed.
UpdateDatagrams ==
    { Encode([sending_router_id |-> n,
              rip_entries |-> << [dest_router_id |-> n, next_hop |-> n,
                                  metric |-> INFINITE_METRIC] >>]) : n \in EnvSenders }
    \cup { MalformedDatagram }

UpdateNext ==
    \/ \E r \in Daemons : Activate(r)
    \/ \E r \in Daemons : \E data \in UpdateDatagrams : Receive(r, data)
    \/ \E r \in Daemons : \E c \in 1..Len(outputs[r]) : SendTo(r, c)
    \/ \E r \in Daemons : PeriodicFire(r)
    \/ \E r \in Daemons : TriggeredFire(r)

UpdateSpec == Init /\ [][UpdateNext]_vars

\* activate() is entered, every timer expires and every write event the
\* selector reports is served.
UpdateFairSpec ==
    /\ UpdateSpec
    /\ WF_vars(Activate(SelfConfig.id))
    /\ WF_vars(PeriodicFire(SelfConfig.id))
    /\ WF_vars(TriggeredFire(SelfConfig.id))
    /\ \A c \in 1..Len(SelfConfig.outputs) : SendFair(SelfConfig.id, c)

\* C20: after activation, every expiry of the periodic timer is eventually
\* followed by a transmission of the table to every neighbor and by a new
\* pending periodic timer, also when triggered updates fire meanwhile.
C20_PeriodicUpdatesRecur ==
    /\ (periodic_update_timer[SelfConfig.id] = "fired")
          ~> (periodic_update_timer[SelfConfig.id] = "pending")
    /\ \A c \in 1..Len(SelfConfig.outputs) :
          (last.op = "periodic_fire")
             ~> (last.op = "send" /\ last.to = SelfConfig.outputs[c].neighbor)

\* ------------------------------------------------------------------------
\* Triggered updates
\* ------------------------------------------------------------------------
\* A timeout callback of daemon r goes on: it takes the lock and poisons the
\* route, then starts the triggered-update and garbage-collection timers.
TimeoutCallbacks(r) ==
    \/ \E t \in threads[r] : TimeoutPoison(r, t)
    \/ \E t \in threads[r] : TimeoutTimers(r, t)

\* The daemon from activate() on, while routes are poisoned by the
\* advertisements of UpdateDatagrams and by expiring timeout timers.  The
\* garbage-collection timers (four periods) do not expire before the
\* triggered update (at most two seconds) and the next periodic update.
TriggerNext ==
    \/ \E r \in Daemons : \E data \in UpdateDatagrams : Receive(r, data)
    \/ \E r \in Daemons : \E i \in 1..Len(routes[r]) : TimeoutFire(r, i)
    \/ \E r \in Daemons : TimeoutCallbacks(r)
    \/ \E r \in Daemons : \E c \in 1..Len(outputs[r]) : SendTo(r, c)
    \/ \E r \in Daemons : PeriodicFire(r)
    \/ \E r \in Daemons : TriggeredFire(r)

TriggerSpec == InitActivated /\ [][TriggerNext]_vars

\* Every timer that was started expires, a callback waiting for the lock gets
\* it once it is free, and every write event the selector reports is served.
TriggerFairSpec ==
    /\ TriggerSpec
    /\ WF_vars(PeriodicFire(SelfConfig.id))
    /\ WF_vars(TriggeredFire(SelfConfig.id))
    /\ WF_vars(TimeoutCallbacks(SelfConfig.id))
    /\ \A c \in 1..Len(SelfConfig.outputs) : SendFair(SelfConfig.id, c)

\* The last step sent the table to the neighbor of connection c, with a table
\* entry for dest at metric 16.
SentPoisoned(dest, c) ==
    /\ last.op = "send"
    /\ last.to = SelfConfig.outputs[c].neighbor
    /\ \E k \in 1..Len(last.datagrams) :
          \E j \in 1..(WireEntryCount(last.datagrams[k]) - 1) :
             /\ WireDest(last.datagrams[k], j) = dest
             /\ WireMetric(last.datagrams[k], j) = INFINITE_METRIC

\* C21: every route poisoning (metric set to 16 by an advertisement or by a
\* timeout) is eventually followed by a transmission of the table, with the
\* poisoned metric, to every neighbor, also when triggered-update timers and
\* the periodic timer expire while a write registration is outstanding.
C21_TriggeredUpdatesDelivered ==
    \A dest \in RouteDests : \A c \in 1..Len(SelfConfig.outputs) :
        Poisoned(dest) ~> SentPoisoned(dest, c)

\* ------------------------------------------------------------------------
\* The codec of ResponseMessage on its own
\* ------------------------------------------------------------------------
\* Router ids of the frames: the smallest and the largest valid id, and ids
\* on both sides of the boundary between the low and the high byte.
CodecIds == {1, 255, 256, 300, MaxValidRouterId}

CodecMetrics == {1, INFINITE_METRIC}

CodecEntries ==
    [dest_router_id : CodecIds, next_hop : CodecIds, metric : CodecMetrics]

\* Well-formed frames: 1 to 25 copies of one entry, and two entries that
\* may differ.
CodecFrames ==
    { [k \in 1..n |-> e] : e \in CodecEntries, n \in 1..EntriesPerMessage }
    \cup { << e1, e2 >> : e1 \in CodecEntries, e2 \in CodecEntries }

CodecMessages == [sending_router_id : CodecIds, rip_entries : CodecFrames]

\* ResponseMessage.encode of a message built with add_rip_entry.
EncodeMessage(m) ==
    /\ last.op = "init"
    /\ last' = [op |-> "encode", message |-> m, data |-> Encode(m)]
    /\ UNCHANGED << outputs, routes, garbage_collection_timers, triggered_update_timers,
                    periodic_update_timer, registered, main, lock, threads, orphans,
                    entries, network >>

\* ResponseMessage.decode of the bytes encode returned.
DecodeData ==
    /\ last.op = "encode"
    /\ last' = [op |-> "decode", message |-> last.message, data |-> last.data,
                result |-> Decode(last.data)]
    /\ UNCHANGED << outputs, routes, garbage_collection_timers, triggered_update_timers,
                    periodic_update_timer, registered, main, lock, threads, orphans,
                    entries, network >>

CodecNext ==
    \/ last.op = "init" /\ \E m \in CodecMessages : EncodeMessage(m)
    \/ DecodeData

CodecSpec == Init /\ [][CodecNext]_vars

\* C22: for every well-formed frame (sender id, dest ids and next-hop ids in
\* [1, 64000], metrics in [1, 16], 1 to 25 entries), decoding the bytes
\* encode produced succeeds and yields the same sender id and the same
\* sequence of (dest, next_hop, metric) entries.
C22_CodecRoundTrip ==
    last.op = "decode" =>
        /\ last.result.ok
        /\ last.result.sending_router_id = last.message.sending_router_id
        /\ Len(last.result.rip_entries) = Len(last.message.rip_entries)
        /\ \A k \in 1..Len(last.message.rip_entries) :
              /\ last.result.rip_entries[k].dest_router_id
                    = last.message.rip_entries[k].dest_router_id
              /\ last.result.rip_entries[k].next_hop = last.message.rip_entries[k].next_hop
              /\ last.result.rip_entries[k].metric = last.message.rip_entries[k].metric

\* ------------------------------------------------------------------------
\* Datagrams of any content
\* ------------------------------------------------------------------------
\* Values a byte of a received datagram is replaced with.
ByteValues == {0, 1, 3, 17, 250, 255}

\* Frames neighbor 2 builds: a table entry for 3 with its direct-link entry,
\* and the direct-link entry alone.
BaseDatagrams ==
    { Encode([sending_router_id |-> 2,
              rip_entries |-> << [dest_router_id |-> 3, next_hop |-> 2, metric |-> 1],
                                 [dest_router_id |-> SelfConfig.id,
                                  next_hop |-> SelfConfig.id, metric |-> 1] >>]),
      Encode([sending_router_id |-> 2,
              rip_entries |-> << [dest_router_id |-> SelfConfig.id,
                                  next_hop |-> SelfConfig.id, metric |-> 1] >>]) }

\* What recvfrom may return: a frame of a neighbor, or such a frame with one
\* byte replaced.
RawDatagrams ==
    BaseDatagrams
    \cup UNION { { [data EXCEPT ![p] = b] : p \in 1..Len(data), b \in ByteValues } :
                  data \in BaseDatagrams }

RawNext == \E r \in Daemons : \E data \in RawDatagrams : Receive(r, data)

RawSpec == InitActivated /\ [][RawNext]_vars

\* The header and entry fields of a datagram, read as section 4.2 of the
\* specification lays them out (entry j counted from 1).
WireSender(data) == data[3] + 256 * data[4]

WireAFI(data, j) == data[20 * j - 15] + 256 * data[20 * j - 14]

InIdRange(id) == id >= 1 /\ id <= MaxValidRouterId

\* The datagrams the decoder has to reject.
MustReject(data) ==
    \/ data[1] # 2
    \/ data[2] # 2
    \/ ~InIdRange(WireSender(data))
    \/ \E j \in 1..WireEntryCount(data) :
          \/ WireAFI(data, j) # 2
          \/ ~InIdRange(WireDest(data, j))
          \/ ~InIdRange(WireNextHop(data, j))
          \/ WireMetric(data, j) > INFINITE_METRIC

\* C23: a datagram is rejected as a whole (decode fails, no route observation
\* reaches update_routing_table and the table stays as it is) whenever its
\* command is not 2, its version is not 2, its sender id is outside
\* [1, 64000], or any entry has a 16-bit Address Family Identifier other than
\* 2, a dest id or next-hop id outside [1, 64000], or a metric above 16.
C23_DecodeRejection ==
    [][\A r \in Daemons : \A data \in RawDatagrams :
          (Receive(r, data) /\ MustReject(data))
          => /\ ReceivedRoutes(data).none
             /\ routes'[r] = routes[r]
             /\ garbage_collection_timers'[r] = garbage_collection_timers[r]
             /\ triggered_update_timers'[r] = triggered_update_timers[r]]_vars

\* ------------------------------------------------------------------------
\* Timeout callbacks that run late
\* ------------------------------------------------------------------------
\* The route of this callback has been refreshed since its timer expired: a
\* new timeout timer has been started for it.
Refreshed(r, t) ==
    \E i \in 1..Len(routes[r]) : /\ routes[r][i].neighbor = t.neighbor
                                 /\ routes[r][i].dest = t.destination
                                 /\ routes[r][i].timeout_timer = "armed"

\* The callback t took the lock in the step before this one, when its route
\* had been refreshed.
TookLockStale(r, t) ==
    /\ last.op = "timeout_poison"
    /\ last.r = r
    /\ {x \in threads[r] : x.pc = "timers"} = {t}
    /\ Refreshed(r, t)

\* C24: a timeout callback that has fired but gets the lock only after the
\* event loop refreshed the same route (started its timeout timer anew) does
\* not set the metric of the route to 16, schedules no triggered update and
\* starts no garbage collection.
C24_StaleTimeoutIgnored ==
    [][\A r \in Daemons : \A t \in threads[r] :
          /\ (TimeoutPoison(r, t) /\ Refreshed(r, t)) => routes'[r] = routes[r]
          /\ (TimeoutTimers(r, t) /\ TookLockStale(r, t))
             => /\ triggered_update_timers'[r] = triggered_update_timers[r]
                /\ garbage_collection_timers'[r] = garbage_collection_timers[r]]_vars

\* ------------------------------------------------------------------------
\* The lock
\* ------------------------------------------------------------------------
\* What the lock protects, without the state of the timers themselves: the
\* routes of the table and the entries of the garbage-collection list.
TableContent(rs) ==
    [i \in 1..Len(rs) |-> << rs[i].dest, rs[i].neighbor, rs[i].metric >>]

TimerListContent(gc) ==
    [j \in 1..Len(gc) |-> << gc[j].neighbor, gc[j].destination >>]

\* C25: every access to the routing table, to the garbage-collection timer
\* list and to the triggered-update timer list happens while the acting
\* thread holds the lock: while one thread holds it, no step of another
\* thread changes the table, changes the garbage-collection list or adds a
\* triggered-update timer.
C25_MutexCoverage ==
    [][\A r \in Daemons :
          lock[r] # "free"
          => /\ TableContent(routes'[r]) = TableContent(routes[r])
             /\ TimerListContent(garbage_collection_timers'[r])
                   = TimerListContent(garbage_collection_timers[r])
             /\ triggered_update_timers'[r] <= triggered_update_timers[r]]_vars

\* ------------------------------------------------------------------------
\* The garbage-collection list
\* ------------------------------------------------------------------------
\* The list gc holds an entry for (neighbor, destination).
ListedIn(gc, neighbor, destination) ==
    \E j \in 1..Len(gc) : gc[j].neighbor = neighbor /\ gc[j].destination = destination

\* The table of r holds a route (destination, via neighbor) that is being
\* deleted: its metric is 16 and its garbage-collection timer has not expired.
BeingDeleted(r, neighbor, destination) ==
    /\ HasRoute(routes[r], destination, neighbor, INFINITE_METRIC)
    /\ PendingIn(garbage_collection_timers[r], neighbor, destination)

\* A timer callback for (neighbor, destination) is in progress.
CallbackInProgress(r, neighbor, destination) ==
    \E t \in threads[r] : t.neighbor = neighbor /\ t.destination = destination

\* C26: in every reachable state the garbage-collection list holds an entry
\* for (via, dest) if and only if the table holds a route with that (via,
\* dest) that is being deleted; no entry remains after its timer has expired
\* and its callback has removed the route.  (States in which a callback for
\* (via, dest) is still in progress are left out.)
C26_GarbageCollectionListExact ==
    \A r \in Daemons : \A neighbor \in Neighbors(r) : \A destination \in RouteDests :
        ~CallbackInProgress(r, neighbor, destination)
        => (ListedIn(garbage_collection_timers[r], neighbor, destination)
            <=> BeingDeleted(r, neighbor, destination))

\* ------------------------------------------------------------------------
\* The timeout timers
\* ------------------------------------------------------------------------
\* The timeout timers for (neighbor, destination) that can still expire:
\* those of the routes of the table and that of a removed Route object.
RunningTimers(r, neighbor, destination) ==
    Cardinality({ i \in 1..Len(routes[r]) : /\ routes[r][i].neighbor = neighbor
                                            /\ routes[r][i].dest = destination
                                            /\ routes[r][i].timeout_timer = "armed" })
    + (IF << neighbor, destination >> \in orphans[r] THEN 1 ELSE 0)

\* C27: at any time at most one timeout timer that can still expire exists
\* for a given (via, dest); none exists for a route that is poisoned and in
\* garbage collection, and none for a route that was removed from the table
\* (so that no timer of a garbage-collected route can poison a route added
\* again with the same (via, dest)).
C27_TimeoutTimerScope ==
    \A r \in Daemons :
        /\ \A neighbor \in Neighbors(r) : \A destination \in RouteDests :
              RunningTimers(r, neighbor, destination) <= 1
        /\ \A i \in 1..Len(routes[r]) :
              (/\ routes[r][i].metric = INFINITE_METRIC
               /\ PendingIn(garbage_collection_timers[r],
                            routes[r][i].neighbor, routes[r][i].dest))
              => routes[r][i].timeout_timer # "armed"
        /\ orphans[r] = {}

\* ------------------------------------------------------------------------
\* The triangle with datagrams that are delayed or lost
\* ------------------------------------------------------------------------
\* The periodic updates of R1 and R2 cross: each has sent its first table to
\* the other (connection 1) and neither datagram has been read yet.  The
\* process of R3 has ended (see Stop), so that nothing comes from R3 any more.
CrossingInit ==
    /\ outputs = Triangle
    /\ routes = [r \in Routers |-> IF r = 3 THEN << >> ELSE InitialRoutes(Triangle[r])]
    /\ garbage_collection_timers = [r \in Routers |-> << >>]
    /\ triggered_update_timers = [r \in Routers |-> 0]
    /\ lock = [r \in Routers |-> "free"]
    /\ threads = [r \in Routers |-> {}]
    /\ orphans = [r \in Routers |-> {}]
    /\ entries = [r \in Routers |-> 0]
    /\ periodic_update_timer = [r \in Routers |-> IF r = 3 THEN "none" ELSE "pending"]
    /\ main = [r \in Routers |-> IF r = 3 THEN "stopped" ELSE "running"]
    /\ registered = [r \in Routers |-> IF r = 3 THEN {} ELSE {2}]
    /\ network = [k \in 1..2 |->
                     [to   |-> Triangle[k][1].neighbor,
                      data |-> SendRoutingTableEntriesToNeighbor(
                                   k, Triangle[k][1], InitialRoutes(Triangle[k]))[1]]]
    /\ last = Step("send", 2, << >>, 1,
                   SendRoutingTableEntriesToNeighbor(2, Triangle[2][1],
                                                     InitialRoutes(Triangle[2])))

\* A datagram in flight is lost.
Lose(k) ==
    /\ k \in 1..Len(network)
    /\ network' = RemoveAt(network, k)
    /\ last' = Step("lose", network[k].to, << >>, 0, << network[k].data >>)
    /\ UNCHANGED << outputs, routes, garbage_collection_timers, triggered_update_timers,
                    periodic_update_timer, registered, main, lock, threads, orphans,
                    entries >>

\* The timeout timer of a route through a neighbor whose process has ended
\* is not started anew by any datagram sent from now on, so it expires, also
\* while an older datagram is still on its way.
LossyTimeoutFire(r, i) ==
    /\ main[routes[r][i].neighbor] = "stopped"
    /\ TimeoutFire(r, i)

LossyNext ==
    \/ \E r \in Routers : ReadEvent(r)
    \/ \E r \in Routers : \E c \in 1..Len(outputs[r]) : SendTo(r, c)
    \/ \E r \in Routers : PeriodicFire(r)
    \/ \E r \in Routers : TriggeredFire(r)
    \/ \E k \in 1..Len(network) : Lose(k)
    \/ \E r \in Routers : \E i \in 1..Len(routes[r]) : LossyTimeoutFire(r, i)
    \/ \E r \in Routers : TimeoutCallbacks(r)

LossySpec == CrossingInit /\ [][LossyNext]_vars

\* A and B hold active routes to dest through each other.
TwoHopLoop(A, B, dest) ==
    /\ \E i \in 1..Len(routes[A]) : /\ routes[A][i].dest = dest
                                    /\ routes[A][i].neighbor = B
                                    /\ routes[A][i].metric < INFINITE_METRIC
    /\ \E i \in 1..Len(routes[B]) : /\ routes[B][i].dest = dest
                                    /\ routes[B][i].neighbor = A
                                    /\ routes[B][i].metric < INFINITE_METRIC

\* C28: with datagrams that may be delayed, lost or reordered, there is no
\* reachable state in which two adjacent routers A and B both hold an active
\* route (metric < 16) to the same destination D, A's via B and B's via A.
C28_NoTwoHopLoop ==
    \A A \in Routers : \A B \in Neighbors(A) : \A dest \in Routers \ {A, B} :
        ~TwoHopLoop(A, B, dest)

\* After reading what B sends from the table it holds now, A has no active
\* route to dest through B.
LoopBrokenByUpdate(A, B, dest) ==
    \A datagrams \in {DatagramsFrom(B, A)} :
        /\ Len(datagrams) >= 1
        /\ \A k \in 1..Len(datagrams) :
              \A d1 \in {UpdateRoutingTable(A, outputs[A], Working(A),
                                            ReceivedRoutes(datagrams[k]).routes)} :
                 \A i \in 1..Len(d1.routes) :
                    (d1.routes[i].dest = dest /\ d1.routes[i].neighbor = B)
                    => d1.routes[i].metric = INFINITE_METRIC

\* C28, amended: a two-hop loop can arise when datagrams are delayed, and it
\* is broken by the next update: in every state in which adjacent routers A
\* and B hold active routes to D through each other, the table B sends to A
\* carries metric 16 for D, and A, on processing it, holds no active route to
\* D through B any more.
C28_TwoHopLoopBroken ==
    \A A \in Routers : \A B \in Neighbors(A) : \A dest \in Routers \ {A, B} :
        TwoHopLoop(A, B, dest) => LoopBrokenByUpdate(A, B, dest)

\* R1 and R2 hold routes to 3 through each other, and R2 has just sent its
\* table to R1.
C28_Witness ==
    /\ TwoHopLoop(1, 2, 3)
    /\ last.op = "send" /\ last.r = 2 /\ last.to = 1
    /\ \E k \in 1..Len(network) :
          network[k].to = 1 /\ network[k].data = DatagramsFrom(2, 1)[1]

\* ------------------------------------------------------------------------
\* What garbage collection removes
\* ------------------------------------------------------------------------
\* C29: whenever the callback of a garbage-collection timer removes a route
\* from the table, that route has metric 16 at the moment of removal; an
\* active route is never deleted by garbage collection.
C29_OnlyPoisonedRemoved ==
    [][\A r \in Daemons : \A t \in threads[r] :
          GarbageCollectionRun(r, t)
          => \A i \in 1..Len(routes[r]) :
                (routes[r][i].neighbor = t.neighbor /\ routes[r][i].dest = t.destination)
                => routes[r][i].metric = INFINITE_METRIC]_vars

\* ------------------------------------------------------------------------
\* The direct-link entry of a send
\* ------------------------------------------------------------------------
\* Connection c of router r: the entry that announces the link itself.
DirectLinkEntry(r, c) ==
    RIPEntry(Route(outputs[r][c].neighbor, outputs[r][c].neighbor, outputs[r][c].metric))

\* data, as the neighbor decodes it, carries entry e.
Carries(data, e) ==
    LET message == Decode(data)
    IN  /\ message.ok
        /\ \E j \in 1..Len(message.rip_entries) :
              /\ message.rip_entries[j].dest_router_id = e.dest_router_id
              /\ message.rip_entries[j].next_hop = e.next_hop
              /\ message.rip_entries[j].metric = e.metric

\* C30: every sending of the table to a neighbor N emits at least one
\* datagram, and a datagram that carries the direct-link entry
\* (dest N, next hop N, metric of the link), also when the table is empty.
C30_DirectLinkAlwaysSent ==
    last.op = "send"
    => \E c \in 1..Len(outputs[last.r]) :
          /\ outputs[last.r][c].neighbor = last.to
          /\ Len(last.datagrams) >= 1
          /\ \E k \in 1..Len(last.datagrams) :
                Carries(last.datagrams[k], DirectLinkEntry(last.r, c))

\* The same for the sendings of a table that is not empty.
C30_DirectLinkSentNonEmpty ==
    (last.op = "send" /\ routes[last.r] # << >>)
    => \E c \in 1..Len(outputs[last.r]) :
          /\ outputs[last.r][c].neighbor = last.to
          /\ \E k \in 1..Len(last.datagrams) :
                Carries(last.datagrams[k], DirectLinkEntry(last.r, c))

=============================================================================
